---- MODULE Spec2Model ----
(***************************************************************************)
(* A model of bloodhound_autoconfig.py: the Nmap report splitter, the      *)
(* per-host classifier (NmapParser), the domain / NetBIOS extraction       *)
(* heuristics and the BloodHound command renderer.                         *)
(*                                                                         *)
(* Text is modelled character by character: a Python str is a TLA+ string, *)
(* read with Len and SubSeq.  Every regular expression of the source is    *)
(* written out as the leftmost, greedy, backtracking match it performs.    *)
(* Optional[str] is a sequence of length 0 (None) or 1 (the value).        *)
(***************************************************************************)
EXTENDS Integers, Sequences, FiniteSets, TLC

\* ---------------------------------------------------------------- text
\* Operators take what they need as parameters instead of naming it in a
\* LET, so that every subexpression is evaluated once.

Min(S) == CHOOSE x \in S : \A y \in S : x <= y

Max(S) == CHOOSE x \in S : \A y \in S : x >= y

\* The least (greatest) element of a set of positions, 0 for the empty set.
MinOrZero(S) == IF S = {} THEN 0 ELSE Min(S)

MaxOrZero(S) == IF S = {} THEN 0 ELSE Max(S)

None == <<>>

Some(v) == <<v>>

\* Python truthiness of an Optional[str]: None and "" are falsy.
Truthy(o) == o # None /\ o[1] # ""

\* s[i], 1-based; the empty string outside s.
Char(s, i) == IF i >= 1 /\ i <= Len(s) THEN SubSeq(s, i, i) ELSE ""

UpperAlpha == "ABCDEFGHIJKLMNOPQRSTUVWXYZ"

LowerAlpha == "abcdefghijklmnopqrstuvwxyz"

Digits == "0123456789"

UpperSet == {Char(UpperAlpha, k) : k \in 1..26}

LowerSet == {Char(LowerAlpha, k) : k \in 1..26}

DigitSet == {Char(Digits, k) : k \in 1..10}

\* \s of the re module, on the characters a text-mode read can deliver.
IsSpace(c) == c \in {" ", "\t", "\n", "\r", "\f"}

\* \d
IsDigit(c) == c \in DigitSet

\* [a-zA-Z0-9\-\.]
IsDomainChar(c) == c \in UpperSet \cup LowerSet \cup DigitSet \cup {"-", "."}

\* [a-zA-Z0-9\-]
IsNetbiosChar(c) == c \in UpperSet \cup LowerSet \cup DigitSet \cup {"-"}

\* [:\s]
IsColonOrSpace(c) == c = ":" \/ IsSpace(c)

\* [^\n,]
IsNotNewlineComma(c) == c \notin {"\n", ","}

\* [^\n]  (also the dot of a pattern compiled without DOTALL)
IsNotNewline(c) == c # "\n"

\* [^,]
IsNotComma(c) == c # ","

\* [^\(]
IsNotParen(c) == c # "("

\* c is in the character class written cls in the patterns of the source.
InClass(cls, c) ==
    CASE cls = "\\s" -> IsSpace(c)
      [] cls = "\\d" -> IsDigit(c)
      [] cls = "[a-zA-Z0-9\\-\\.]" -> IsDomainChar(c)
      [] cls = "[a-zA-Z0-9\\-]" -> IsNetbiosChar(c)
      [] cls = "[:\\s]" -> IsColonOrSpace(c)
      [] cls = "[^\\n,]" -> IsNotNewlineComma(c)
      [] cls = "[^\\n]" -> IsNotNewline(c)
      [] cls = "[^,]" -> IsNotComma(c)
      [] cls = "[^\\(]" -> IsNotParen(c)

LowerChar(c) ==
    IF c \in UpperSet
    THEN Char(LowerAlpha, CHOOSE k \in 1..26 : Char(UpperAlpha, k) = c)
    ELSE c

UpperChar(c) ==
    IF c \in LowerSet
    THEN Char(UpperAlpha, CHOOSE k \in 1..26 : Char(LowerAlpha, k) = c)
    ELSE c

RECURSIVE MapChars(_, _)
\* str.lower() (up = FALSE) and str.upper() (up = TRUE), character by
\* character; the string is halved to keep the recursion shallow.
MapChars(s, up) ==
    IF Len(s) = 0 THEN ""
    ELSE IF Len(s) = 1 THEN (IF up THEN UpperChar(s) ELSE LowerChar(s))
    ELSE MapChars(SubSeq(s, 1, Len(s) \div 2), up)
         \o MapChars(SubSeq(s, (Len(s) \div 2) + 1, Len(s)), up)

Lower(s) == MapChars(s, FALSE)

Upper(s) == MapChars(s, TRUE)

\* The literal p occurs in s at position i.
StartsAt(s, i, p) ==
    /\ i >= 1
    /\ i + Len(p) - 1 <= Len(s)
    /\ SubSeq(s, i, i + Len(p) - 1) = p

\* All positions at which the literal p occurs in s.
Occurrences(s, p) == {i \in 1..Len(s) : StartsAt(s, i, p)}

\* `p in s`
Contains(s, p) == Occurrences(s, p) # {}

\* The position before the first of stops, n when there is none.
StopBefore(stops, n) == IF stops = {} THEN n ELSE Min(stops) - 1

\* The last position of the maximal run of characters of the class cls that
\* starts at i; i - 1 when the run is empty.
RunEnd(s, i, cls) ==
    StopBefore({j \in i..Len(s) : ~InClass(cls, Char(s, j))}, Len(s))

\* s between the first and the last of the positions keep.
Between(s, keep) == IF keep = {} THEN "" ELSE SubSeq(s, Min(keep), Max(keep))

\* str.strip()
Strip(s) == Between(s, {i \in 1..Len(s) : ~IsSpace(Char(s, i))})

\* A greedy run A+ (minA = 1) or A* (minA = 0) starting at p, followed by a
\* greedy run B+: the position where the B run starts, 0 when there is no
\* match.  The A run is as long as possible, and gives characters back only
\* when the B run could not start otherwise.
GreedyThen(s, p, minA, A, B) ==
    MaxOrZero({m \in (p + minA)..(RunEnd(s, p, A) + 1) :
                  m <= Len(s) /\ InClass(B, Char(s, m))})

\* The group (B+) that starts at g, None when g is 0 (no match).
Capture(s, g, B) ==
    IF g = 0 THEN None ELSE Some(SubSeq(s, g, RunEnd(s, g, B)))

RECURSIVE IntToStr(_)
\* f'{port}' for a non-negative integer.
IntToStr(n) ==
    IF n < 10 THEN Char(Digits, n + 1)
    ELSE IntToStr(n \div 10) \o Char(Digits, (n % 10) + 1)

RECURSIVE Join(_, _)
\* sep.join(parts)
Join(sep, parts) ==
    IF Len(parts) = 0 THEN ""
    ELSE IF Len(parts) = 1 THEN parts[1]
    ELSE parts[1] \o sep \o Join(sep, Tail(parts))

RECURSIVE SplitFrom(_, _, _)
RECURSIVE SplitAt(_, _, _, _)
\* str.split(sep) and re.split of a literal pattern, from position i on.
SplitFrom(s, sep, i) ==
    SplitAt(s, sep, i, MinOrZero({j \in i..Len(s) : StartsAt(s, j, sep)}))

\* The pieces from i on, the next separator being at h (0: there is none).
SplitAt(s, sep, i, h) ==
    IF h = 0 THEN <<SubSeq(s, i, Len(s))>>
    ELSE <<SubSeq(s, i, h - 1)>> \o SplitFrom(s, sep, h + Len(sep))

Split(s, sep) == SplitFrom(s, sep, 1)

\* ------------------------------------------------------- regex searches

\* The positions of lower at which  <label><A-run><(B+)>  matches.
LabelStarts(block, lower, label, minA, A, B) ==
    {i \in Occurrences(lower, label) :
        GreedyThen(block, i + Len(label), minA, A, B) # 0}

\* The start of the group of the match that starts at i (0: no match).
LabelGroup(block, i, label, minA, A, B) ==
    IF i = 0 THEN 0 ELSE GreedyThen(block, i + Len(label), minA, A, B)

\* re.search of  <label><A-run><(B+)>  with re.IGNORECASE: the captured
\* group of the leftmost match, or None.  minA is 1 for A+ and 0 for A*.
SearchLabel(block, label, minA, A, B) ==
    Capture(block,
            LabelGroup(block,
                       MinOrZero(LabelStarts(block, Lower(block), label, minA, A, B)),
                       label, minA, A, B),
            B)

\* \d+\. from i on: the position after the dot, 0 if it does not match
\* (d is where the digits end).
AfterDot(s, i, d) ==
    IF i # 0 /\ d >= i /\ Char(s, d + 1) = "." THEN d + 2 ELSE 0

DigitsDot(s, i) == AfterDot(s, i, RunEnd(s, i, "\\d"))

\* \d+ from i on: the last digit, 0 if it does not match.
LastDigits(s, i, d) == IF i # 0 /\ d >= i THEN d ELSE 0

\* The end of a match of \d+\.\d+\.\d+\.\d+ that starts at i, 0 if none.
IpEndFrom(s, i4) == LastDigits(s, i4, RunEnd(s, i4, "\\d"))

IpEnd(s, i) == IpEndFrom(s, DigitsDot(s, DigitsDot(s, DigitsDot(s, i))))

\* The address that starts at i, None when i is 0.
ip_group(s, i) == IF i = 0 THEN None ELSE Some(SubSeq(s, i, IpEnd(s, i)))

\* re.search(r'(\d+\.\d+\.\d+\.\d+)', first_line)
ip_match(line) ==
    ip_group(line, MinOrZero({i \in 1..Len(line) : IpEnd(line, i) # 0}))

\* The group ([^\(]+) that ends at e, None when it is empty.
hostname_group(line, e) ==
    IF e >= 1 THEN Some(SubSeq(line, 1, e)) ELSE None

\* re.search(r'^([^\(]+)', first_line)
hostname_match(line) == hostname_group(line, RunEnd(line, 1, "[^\\(]"))

RECURSIVE FindAllDC(_, _, _)
RECURSIVE FindAllDCAt(_, _, _)
\* re.findall(r'DC=([^,]+)', dn, re.IGNORECASE), scanning from position i;
\* lower is dn in lower case.
FindAllDC(dn, lower, i) ==
    FindAllDCAt(dn, lower,
                MinOrZero({j \in i..Len(dn) :
                              /\ StartsAt(lower, j, "dc=")
                              /\ j + 3 <= Len(dn)
                              /\ IsNotComma(Char(dn, j + 3))}))

\* The matches from the one whose DC= is at j on (0: no more match).
FindAllDCAt(dn, lower, j) ==
    IF j = 0 THEN <<>>
    ELSE <<SubSeq(dn, j + 3, RunEnd(dn, j + 3, "[^,]"))>>
         \o FindAllDC(dn, lower, RunEnd(dn, j + 3, "[^,]") + 1)

\* ------------------------------------------------------------ NmapParser

\* AD_PORTS iterated in ascending order of the port.
AD_PORTS_sorted ==
    << [port |-> 53,   service |-> "DNS"],
       [port |-> 88,   service |-> "Kerberos"],
       [port |-> 135,  service |-> "RPC"],
       [port |-> 389,  service |-> "LDAP"],
       [port |-> 445,  service |-> "SMB"],
       [port |-> 636,  service |-> "LDAPS"],
       [port |-> 3268, service |-> "Global Catalog"],
       [port |-> 3269, service |-> "Global Catalog SSL"] >>

AD_PORTS ==
    << [port |-> 88,   service |-> "Kerberos"],
       [port |-> 389,  service |-> "LDAP"],
       [port |-> 636,  service |-> "LDAPS"],
       [port |-> 445,  service |-> "SMB"],
       [port |-> 3268, service |-> "Global Catalog"],
       [port |-> 3269, service |-> "Global Catalog SSL"],
       [port |-> 53,   service |-> "DNS"],
       [port |-> 135,  service |-> "RPC"] >>

\* f'{port}/tcp'
port_pattern(port) == IntToStr(port) \o "/tcp"

InSeq(x, sq) == \E i \in 1..Len(sq) : sq[i] = x

\* The AD_PORTS entries whose pattern occurs in block_lower, in the
\* iteration order of the dict.
found_entries(block_lower) ==
    SelectSeq(AD_PORTS, LAMBDA e : Contains(block_lower, port_pattern(e.port)))

found_ports(found) == [i \in 1..Len(found) |-> found[i].port]

found_services(found) == [i \in 1..Len(found) |-> found[i].service]

has_kerberos(ports) == InSeq(88, ports)

\* has_ldap without the LDAPS alternative.
has_ldap_without_ldaps(ports) == InSeq(389, ports)

has_ldap(ports) == InSeq(389, ports) \/ InSeq(636, ports)

\* is_dc, found_ports, found_services for the entries found.
dc_verdict(found) ==
    [is_dc |-> has_kerberos(found_ports(found)) /\ has_ldap(found_ports(found)),
     ports |-> found_ports(found),
     services |-> found_services(found)]

check_domain_controller(block) == dc_verdict(found_entries(Lower(block)))

\* m.group(1).strip() if m else None
StripGroup(m) == IF m # None THEN Some(Strip(m[1])) ELSE None

\* Method 1: r'Domain:\s*([a-zA-Z0-9\-\.]+)'
domain_match(block) ==
    StripGroup(SearchLabel(block, "domain:", 0, "\\s", "[a-zA-Z0-9\\-\\.]"))

\* r'defaultNamingContext[:\s]+([^\n,]+)'
naming_context(block) ==
    StripGroup(SearchLabel(block, "defaultnamingcontext", 1, "[:\\s]",
                           "[^\\n,]"))

\* '.'.join(dc_parts) if dc_parts, else nothing.
join_dc_parts(dc_parts) ==
    IF Len(dc_parts) > 0 THEN Some(Join(".", dc_parts)) ELSE None

\* The domain of the stripped naming context dn (None: no naming context).
domain_of_dn(dn) ==
    IF dn = None THEN None
    ELSE join_dc_parts(FindAllDC(dn[1], Lower(dn[1]), 1))

\* Method 2: the DC= components of the naming context, joined with dots.
domain_from_naming_context(block) == domain_of_dn(naming_context(block))

\* '.'.join(fqdn.split('.')[1:]) if '.' in fqdn (None: no dns_computer_name).
domain_of_fqdn(fqdn) ==
    IF fqdn = None THEN None
    ELSE IF Contains(fqdn[1], ".")
         THEN Some(Join(".", Tail(Split(fqdn[1], "."))))
    ELSE None

\* Method 3: r'dns_computer_name:\s*([^\n]+)', minus the leftmost label.
domain_from_dns_hostname(block) ==
    domain_of_fqdn(StripGroup(SearchLabel(block, "dns_computer_name:", 0,
                                          "\\s", "[^\\n]")))

\* Method 4: r'forest[:\s]+([a-zA-Z0-9\-\.]+)'
forest_match(block) ==
    StripGroup(SearchLabel(block, "forest", 1, "[:\\s]", "[a-zA-Z0-9\\-\\.]"))

\* first_match with the naming context tried before the Domain: label.
first_match_context_first(m1, m2, m3, m4) ==
    IF m2 # None THEN m2
    ELSE IF m1 # None THEN m1
    ELSE IF m3 # None THEN m3
    ELSE IF m4 # None THEN m4
    ELSE None

\* The first of four results that is not None, in this order.
first_match(m1, m2, m3, m4) ==
    IF m1 # None THEN m1
    ELSE IF m2 # None THEN m2
    ELSE IF m3 # None THEN m3
    ELSE IF m4 # None THEN m4
    ELSE None

extract_domain(block) ==
    first_match(domain_match(block),
                domain_from_naming_context(block),
                domain_from_dns_hostname(block),
                forest_match(block))

\* \s*([a-zA-Z0-9\-]+) from p on: the start of the group, 0 if no match.
NetbiosValue(block, p) == GreedyThen(block, p, 0, "\\s", "[a-zA-Z0-9\\-]")

\* The rest of the line after the label of length n that starts at i: the
\* positions a greedy .* can stop before.
DotStar(block, i, n) == (i + n)..(RunEnd(block, i + n, "[^\\n]") + 1)

\* r'NetBIOS.*Domain:\s*([a-zA-Z0-9\-]+)': the start of the captured group
\* for a match that begins at i, 0 if there is none.  The dot stays on the
\* line, and being greedy takes the last Domain: that lets the rest match.
NetbiosDomainGroup(block, lower, i) ==
    MaxOrZero({NetbiosValue(block, q + 7) : q \in
                  {q \in DotStar(block, i, 7) :
                      /\ StartsAt(lower, q, "domain:")
                      /\ NetbiosValue(block, q + 7) # 0}})

\* The colons after the Computer at q that let :\s*(...) match.
NetbiosColons(block, q) ==
    {r \in DotStar(block, q, 8) :
        Char(block, r) = ":" /\ NetbiosValue(block, r + 1) # 0}

\* The start of the group after the last colon of the last Computer of qs.
NetbiosLastColon(block, qs) ==
    IF qs = {} THEN 0
    ELSE NetbiosValue(block, Max(NetbiosColons(block, Max(qs))) + 1)

\* r'NetBIOS.*Computer.*:\s*([a-zA-Z0-9\-]+)', likewise: the last Computer
\* on the line, then the last colon on it, that let the rest match.
NetbiosComputerGroup(block, lower, i) ==
    NetbiosLastColon(block,
                     {q \in DotStar(block, i, 7) :
                         /\ StartsAt(lower, q, "computer")
                         /\ NetbiosColons(block, q) # {}})

\* The group of a match of one of the two patterns that starts at i.
NetbiosGroup(block, lower, i, pattern) ==
    IF pattern = "Domain" THEN NetbiosDomainGroup(block, lower, i)
    ELSE NetbiosComputerGroup(block, lower, i)

\* The group of the match that starts at i (0: no match).
NetbiosGroupAt(block, lower, i, pattern) ==
    IF i = 0 THEN 0 ELSE NetbiosGroup(block, lower, i, pattern)

\* The leftmost NetBIOS at which the pattern matches, 0 if none.
NetbiosStart(block, lower, pattern) ==
    MinOrZero({i \in Occurrences(lower, "netbios") :
                  NetbiosGroup(block, lower, i, pattern) # 0})

\* re.search with one of the two NetBIOS patterns: the captured group.
SearchNetbios(block, lower, pattern) ==
    Capture(block,
            NetbiosGroupAt(block, lower, NetbiosStart(block, lower, pattern), pattern),
            "[a-zA-Z0-9\\-]")

\* m.group(1).strip().upper() if m else None
UpperGroup(m) == IF m # None THEN Some(Upper(Strip(m[1]))) ELSE None

\* The first of the two results that is not None.
first_netbios(netbios_match, netbios_computer) ==
    IF netbios_match # None THEN netbios_match
    ELSE IF netbios_computer # None THEN netbios_computer
    ELSE None

netbios_of(block, lower) ==
    first_netbios(UpperGroup(SearchNetbios(block, lower, "Domain")),
                  UpperGroup(SearchNetbios(block, lower, "Computer")))

extract_netbios(block) == netbios_of(block, Lower(block))

\* lines[0] of host_block.split('\n')
first_line(host_block) == Split(host_block, "\n")[1]

\* host_ip searching the whole block instead of its first line.
host_ip_any_line(host_block) == ip_match(host_block)

\* ip of _parse_host: the matched address or None.
host_ip(host_block) == ip_match(first_line(host_block))

\* hostname_match.group(1).strip() if hostname_match else ip
hostname_or_ip(m, ip) == IF m # None THEN Some(Strip(m[1])) ELSE ip

\* hostname of _parse_host.
host_hostname(host_block) ==
    hostname_or_ip(hostname_match(first_line(host_block)), host_ip(host_block))

\* DomainController(ip, hostname, domain, netbios) with ports and services.
DomainController(ip, hostname, domain, netbios, ports, services) ==
    [ip |-> ip, hostname |-> hostname, domain |-> domain,
     netbios |-> netbios, ports |-> ports, services |-> services]

\* _parse_host once ip and the verdict of _check_domain_controller are known.
parse_host_with(host_block, ip, chk) ==
    IF ip = None THEN None
    ELSE IF ~chk.is_dc THEN None
    ELSE Some(DomainController(ip[1], host_hostname(host_block)[1],
                               extract_domain(host_block),
                               extract_netbios(host_block),
                               chk.ports, chk.services))

\* The value _parse_host returns: None, or the DomainController.
parse_host(host_block) ==
    parse_host_with(host_block, host_ip(host_block),
                    check_domain_controller(host_block))

\* --------------------------------------------- BloodHoundCommandGenerator

\* The bloodhound-python command line, one option per line.
generate_command(dc, username, password, domain, use_domain_prefix, netbios_domain) ==
    LET dc_hostname == IF dc.hostname # dc.ip THEN dc.hostname ELSE dc.ip
        username_str == IF use_domain_prefix /\ Truthy(netbios_domain)
                        THEN "'" \o netbios_domain[1] \o "\\" \o username \o "'"
                        ELSE username
    IN  "bloodhound-python \\\n  -u " \o username_str
        \o " \\\n  -p '" \o password \o "'"
        \o " \\\n  -d " \o domain
        \o " \\\n  -dc " \o dc_hostname
        \o " \\\n  -c All \\\n  --zip"

\* dc.domain or "UNKNOWN"
domain_key(dc) == IF Truthy(dc.domain) THEN dc.domain[1] ELSE "UNKNOWN"

RECURSIVE dc_by_domain_keys(_, _)
\* The keys of dc_by_domain in insertion order: each domain once, in the
\* order of its first record; seen holds the keys inserted so far.
dc_by_domain_keys(dcs, seen) ==
    IF Len(dcs) = 0 THEN <<>>
    ELSE IF domain_key(Head(dcs)) \in seen
         THEN dc_by_domain_keys(Tail(dcs), seen)
    ELSE <<domain_key(Head(dcs))>>
         \o dc_by_domain_keys(Tail(dcs), seen \cup {domain_key(Head(dcs))})

\* dc_by_domain[domain]: the records of one domain, in record order.
dc_by_domain(dcs, domain) == SelectSeq(dcs, LAMBDA dc : domain_key(dc) = domain)

\* group_netbios taking the last truthy netbios of the records.
group_netbios_last(group, netbios_set, first_of_set) ==
    IF {i \in 1..Len(group) : Truthy(group[i].netbios)} # {}
    THEN group[Max({i \in 1..Len(group) : Truthy(group[i].netbios)})].netbios
    ELSE IF netbios_set # {} THEN Some(first_of_set)
    ELSE None

\* The netbios of one domain's commands: the first truthy netbios of its
\* records, else list(netbios_domains)[0] (first_of_set, whichever element
\* the set iterates first), else None.
group_netbios(group, netbios_set, first_of_set) ==
    IF {i \in 1..Len(group) : Truthy(group[i].netbios)} # {}
    THEN group[Min({i \in 1..Len(group) : Truthy(group[i].netbios)})].netbios
    ELSE IF netbios_set # {} THEN Some(first_of_set)
    ELSE None

\* The commands of one domain, one per record.
group_commands(group, domain, netbios, username, password, use_domain_prefix) ==
    [i \in 1..Len(group) |->
        [dc |-> group[i],
         command |-> generate_command(group[i], username, password, domain,
                                      use_domain_prefix, netbios),
         domain |-> domain,
         netbios |-> netbios]]

RECURSIVE commands_of(_, _, _, _, _, _, _)
commands_of(keys, dcs, netbios_set, first_of_set, username, password, use_domain_prefix) ==
    IF Len(keys) = 0 THEN <<>>
    ELSE LET group == dc_by_domain(dcs, Head(keys))
             netbios == group_netbios(group, netbios_set, first_of_set)
         IN  group_commands(group, Head(keys), netbios, username, password,
                            use_domain_prefix)
             \o commands_of(Tail(keys), dcs, netbios_set, first_of_set,
                            username, password, use_domain_prefix)

generate_all_commands(dcs, netbios_set, first_of_set, username, password, use_domain_prefix) ==
    commands_of(dc_by_domain_keys(dcs, {}), dcs, netbios_set, first_of_set,
                username, password, use_domain_prefix)

\* ---- state ---------------------------------------------------------------

\* The literal re.split splits the report at.
Marker == "Nmap scan report for "

\* The most host blocks a report of the model holds.
MaxHosts == 2

\* Text before the first marker: nothing, or a banner that itself carries an
\* address, the qualifying ports and identity fields.
Preambles ==
    { "",
      "Starting Nmap 7.94 at 10.0.0.9\n88/tcp 389/tcp\nDomain: pre.local\n" }

\* Host blocks: the text that follows a marker, up to the next marker.
HostBlocks ==
    { "dc01.corp.local (10.0.0.1)\n88/tcp open\n389/tcp open ldap (Domain: corp.local)\n| NetBIOS Domain: corp\n",
      "10.0.0.2\n636/tcp open\n88/TCP open\n3268/tcp open\ndomain: corp.local\n",
      " (10.0.0.3)\n135/tcp open\n53/tcp open\n88/tcp open\n3389/tcp open\n",
      "dc4 (10.0.0.4)\n88/tcp\n389/tcp\n445/tcp\nDNS_Computer_Name: dc4.lab.test\nNetBIOS Computer Name: dc-4\n",
      "ws5 (10.0.0.5)\n88/tcp open\n445/tcp open\nDomain: corp.local\nNetBIOS Domain: WS\n",
      "ws6 (10.0.0.6)\n389/tcp open\n636/tcp open\n",
      "dc7.ghost.local\n88/tcp\n389/tcp\nDomain: ghost.local\nNetBIOS Domain: GHOST\nvia 10.0.0.7\n",
      "(10.0.0.8)\n88/tcp\n389/tcp\nDomain: corp.local\nNetBIOS Domain: HQ\n" }

RECURSIVE Reports(_)
\* The reports with exactly n host blocks.
Reports(n) ==
    IF n = 0 THEN Preambles
    ELSE {r \o Marker \o b : r \in Reports(n - 1), b \in HostBlocks}

AllReports == UNION {Reports(n) : n \in 0..MaxHosts}

\* The host blocks of the runs in which _parse_host raises: a controller
\* with a domain and a NetBIOS name, one with a domain only, a workstation
\* and a block without an address.
FaultBlocks ==
    { "dc01.corp.local (10.0.0.1)\n88/tcp open\n389/tcp open ldap (Domain: corp.local)\n| NetBIOS Domain: corp\n",
      "10.0.0.2\n636/tcp open\n88/TCP open\n3268/tcp open\ndomain: hq.local\n",
      "ws5 (10.0.0.5)\n88/tcp open\n445/tcp open\nDomain: corp.local\nNetBIOS Domain: WS\n",
      "dc7.ghost.local\n88/tcp\n389/tcp\nDomain: ghost.local\nNetBIOS Domain: GHOST\nvia 10.0.0.7\n" }

RECURSIVE FaultReports(_)
FaultReports(n) ==
    IF n = 0 THEN {""}
    ELSE {r \o Marker \o b : r \in FaultReports(n - 1), b \in FaultBlocks}

\* The most fields a block given to _extract_domain alone is made of.
MaxFields == 2

\* The fields of those blocks: a label as the report prints it and the value
\* after it (for a naming context, its DC= components).
FieldCatalog ==
    { [kind |-> "domain", label |-> "Domain: ", value |-> <<"corp.local">>],
      [kind |-> "domain", label |-> "DOMAIN:", value |-> <<"hq.example.com">>],
      [kind |-> "domain", label |-> "NetBIOS Domain: ", value |-> <<"CORP">>],
      [kind |-> "nc", label |-> "defaultNamingContext: ",
       value |-> <<"corp", "example", "local">>],
      [kind |-> "nc", label |-> "defaultnamingcontext: ", value |-> <<"lab">>],
      [kind |-> "dns", label |-> "dns_computer_name: ", value |-> <<"dc01.corp.local">>],
      [kind |-> "dns", label |-> "DNS_Computer_Name: ", value |-> <<"DC01">>],
      [kind |-> "forest", label |-> "forest: ", value |-> <<"f.local">>],
      [kind |-> "forest", label |-> "Forest name: ", value |-> <<"g.local">>],
      [kind |-> "forest", label |-> "forest: ", value |-> <<"CORP">>],
      [kind |-> "other", label |-> "445/tcp open ", value |-> <<"microsoft-ds">>] }

\* The sequences of n distinct fields.
FieldSeqs(n) ==
    {sq \in [1..n -> FieldCatalog] : \A i, j \in 1..n : i # j => sq[i] # sq[j]}

\* The line of the report that carries the field.
FieldLine(f) ==
    f.label
    \o (IF f.kind = "nc"
        THEN Join(",", [i \in 1..Len(f.value) |-> "DC=" \o f.value[i]])
        ELSE f.value[1])
    \o "\n"

\* The host block with the fields sq, one per line, in this order.
FieldBlock(sq) ==
    "dc (10.0.0.1)\n88/tcp\n389/tcp\n"
    \o Join("", [i \in 1..Len(sq) |-> FieldLine(sq[i])])

Usernames == {"micro"}

Passwords == {"Secret1"}

\* str(e) of an exception raised while a host block is processed.
ExceptionMessages == {"", "out of memory"}

VARIABLES
    readable,            \* whether open() and read() of file_path succeed
    content,             \* the text read from the file
    raise_at,            \* the host indexes at which _parse_host raises
    pc,                  \* where the run is
    hosts,               \* the segments re.split made of content
    idx,                 \* the loop index of parse, 1-based
    parse_result,        \* what parse returned: "none" until it returns
    domain_controllers,
    domain_names,
    netbios_domains,
    total_hosts,
    parse_errors,
    commands,            \* what generate_all_commands returned
    fields,              \* the fields a block given to _extract_domain is made of
    block,               \* that block
    domain,              \* what _extract_domain returned for it
    extracted,           \* whether _extract_domain has been applied
    file_exists,         \* Path(args.nmap_file).exists()
    json_only,           \* args.json_only
    output_writable,     \* whether open(..., 'w') under args.output succeeds
    main_pc,             \* where main is: "off" when main is not run
    exception,           \* what propagated out of main to the handlers of __main__
    exit_code,           \* the exit status of the process: -1 while it runs
    prompts_shown,       \* the input() prompts shown so far, in order
    config,              \* what get_user_input returned
    output_files         \* the files written under args.output, in order

\* The run of the tool.
run_vars == <<readable, content, raise_at, pc, hosts, idx, parse_result,
              domain_controllers, domain_names, netbios_domains, total_hosts,
              parse_errors, commands>>

\* One application of _extract_domain.
extract_vars == <<fields, block, domain, extracted>>

\* The command-line run around the parser.
main_vars == <<file_exists, json_only, output_writable, main_pc, exception,
               exit_code, prompts_shown, config, output_files>>

vars == <<run_vars, extract_vars, main_vars>>

\* NmapParser.__init__ on a file_path.
InitRun ==
    /\ pc = "start"
    /\ hosts = <<>>
    /\ idx = 0
    /\ parse_result = "none"
    /\ domain_controllers = <<>>
    /\ domain_names = {}
    /\ netbios_domains = {}
    /\ total_hosts = 0
    /\ parse_errors = <<>>
    /\ commands = <<>>

NoExtract ==
    /\ fields = <<>>
    /\ block = ""
    /\ domain = None
    /\ extracted = FALSE

\* The parser used as a library: main is not run.
NoMain ==
    /\ file_exists = TRUE
    /\ json_only = FALSE
    /\ output_writable = TRUE
    /\ main_pc = "off"
    /\ exception = "none"
    /\ exit_code = -1
    /\ prompts_shown = <<>>
    /\ config = <<>>
    /\ output_files = <<>>

\* A run on an unreadable file, or on a file holding any report of the
\* model; no block makes _parse_host raise.
Init ==
    /\ readable \in BOOLEAN
    /\ content \in (IF readable THEN AllReports ELSE {""})
    /\ raise_at = {}
    /\ InitRun
    /\ NoExtract
    /\ NoMain

\* parse: the file cannot be opened or read; parse returns False.
ParseReadError ==
    /\ pc = "start"
    /\ ~readable
    /\ parse_result' = "False"
    /\ pc' = "returned"
    /\ UNCHANGED <<readable, content, raise_at, hosts, idx, domain_controllers,
                   domain_names, netbios_domains, total_hosts, parse_errors,
                   commands>>
    /\ UNCHANGED extract_vars
    /\ UNCHANGED main_vars

\* parse: the file is read and split at the marker.
ParseSplit ==
    /\ pc = "start"
    /\ readable
    /\ hosts' = Split(content, Marker)
    /\ total_hosts' = Len(hosts') - 1
    /\ idx' = 1
    /\ pc' = "loop"
    /\ UNCHANGED <<readable, content, raise_at, parse_result, domain_controllers,
                   domain_names, netbios_domains, parse_errors, commands>>
    /\ UNCHANGED extract_vars
    /\ UNCHANGED main_vars

\* host_block of a loop over enumerate(hosts, 1): the preamble included.
host_block_with_preamble == hosts[idx]

\* The host block the loop is at: enumerate(hosts[1:], 1).
host_block == hosts[idx + 1]

\* Lines 148-151 and 110-111: what a returned dc adds to the run.
RecordHost(dc) ==
    /\ domain_names' =
          IF dc # None /\ Truthy(dc[1].domain)
          THEN domain_names \cup {dc[1].domain[1]} ELSE domain_names
    /\ netbios_domains' =
          IF dc # None /\ Truthy(dc[1].netbios)
          THEN netbios_domains \cup {dc[1].netbios[1]} ELSE netbios_domains
    /\ domain_controllers' =
          IF dc # None THEN Append(domain_controllers, dc[1])
          ELSE domain_controllers

\* One iteration of the loop of parse in which _parse_host returns.
ParseHostStep ==
    /\ pc = "loop"
    /\ idx <= total_hosts
    /\ idx \notin raise_at
    /\ RecordHost(parse_host(host_block))
    /\ idx' = idx + 1
    /\ UNCHANGED <<readable, content, raise_at, pc, hosts, parse_result,
                   total_hosts, parse_errors, commands>>
    /\ UNCHANGED extract_vars
    /\ UNCHANGED main_vars

\* f"Host {idx}: {str(e)}"
error_entry(i, msg) == "Host " \o IntToStr(i) \o ": " \o msg

\* What _parse_host has done when it raises: nothing when the exception comes
\* before line 149, and the domain is in domain_names when it comes from the
\* netbios_domains.add of line 151.
RaiseHost(dc, point) ==
    /\ point = "netbios_add" => dc # None /\ Truthy(dc[1].netbios)
    /\ domain_names' =
          IF point = "netbios_add" /\ Truthy(dc[1].domain)
          THEN domain_names \cup {dc[1].domain[1]} ELSE domain_names
    /\ UNCHANGED <<netbios_domains, domain_controllers>>

\* ParseHostRaises without the handler: the exception ends parse.
ParseHostRaisesAborts ==
    /\ pc = "loop"
    /\ idx <= total_hosts
    /\ idx \in raise_at
    /\ parse_result' = "False"
    /\ pc' = "returned"
    /\ UNCHANGED <<readable, content, raise_at, hosts, idx, domain_controllers,
                   domain_names, netbios_domains, total_hosts, parse_errors,
                   commands>>
    /\ UNCHANGED extract_vars
    /\ UNCHANGED main_vars

\* One iteration of the loop of parse in which _parse_host raises: the
\* handler of line 112 records the error and the loop goes on.
ParseHostRaises ==
    /\ pc = "loop"
    /\ idx <= total_hosts
    /\ idx \in raise_at
    /\ \E point \in {"early", "netbios_add"} :
          RaiseHost(parse_host(host_block), point)
    /\ \E msg \in ExceptionMessages :
          parse_errors' = Append(parse_errors, error_entry(idx, msg))
    /\ idx' = idx + 1
    /\ UNCHANGED <<readable, content, raise_at, pc, hosts, parse_result,
                   total_hosts, commands>>
    /\ UNCHANGED extract_vars
    /\ UNCHANGED main_vars

\* parse: the loop is over; parse returns True.
ParseReturn ==
    /\ pc = "loop"
    /\ idx > total_hosts
    /\ parse_result' = "True"
    /\ pc' = "parsed"
    /\ UNCHANGED <<readable, content, raise_at, hosts, idx, domain_controllers,
                   domain_names, netbios_domains, total_hosts, parse_errors,
                   commands>>
    /\ UNCHANGED extract_vars
    /\ UNCHANGED main_vars

\* generate_all_commands on the parsed run.  list(netbios_domains)[0] is
\* whichever element the set iterates first: any of them.
GenerateAllCommands ==
    /\ pc = "parsed"
    /\ \E username \in Usernames, password \in Passwords,
          use_domain_prefix \in BOOLEAN,
          first_of_set \in netbios_domains \cup {""} :
          /\ (netbios_domains # {} => first_of_set \in netbios_domains)
          /\ commands' = generate_all_commands(domain_controllers, netbios_domains,
                                               first_of_set, username, password,
                                               use_domain_prefix)
    /\ pc' = "generated"
    /\ UNCHANGED <<readable, content, raise_at, hosts, idx, parse_result,
                   domain_controllers, domain_names, netbios_domains,
                   total_hosts, parse_errors>>
    /\ UNCHANGED extract_vars
    /\ UNCHANGED main_vars

Next ==
    \/ ParseReadError
    \/ ParseSplit
    \/ ParseHostStep
    \/ ParseReturn
    \/ GenerateAllCommands

Spec == Init /\ [][Next]_vars

\* A run on a readable report in which _parse_host raises at the host
\* indexes raise_at: nothing in a host block makes it raise, so the
\* exception is one the interpreter raises (a MemoryError, say).
InitFault ==
    /\ readable = TRUE
    /\ content \in UNION {FaultReports(n) : n \in 0..MaxHosts}
    /\ raise_at \in SUBSET (1..MaxHosts)
    /\ InitRun
    /\ NoExtract
    /\ NoMain

NextFault ==
    \/ ParseSplit
    \/ ParseHostStep
    \/ ParseHostRaises
    \/ ParseReturn

SpecFault == InitFault /\ [][NextFault]_vars

\* _extract_domain alone, on a block made of up to MaxFields fields.
InitDomain ==
    /\ fields \in UNION {FieldSeqs(n) : n \in 0..MaxFields}
    /\ block = FieldBlock(fields)
    /\ domain = None
    /\ extracted = FALSE
    /\ readable = FALSE
    /\ content = ""
    /\ raise_at = {}
    /\ InitRun
    /\ NoMain

ExtractDomain ==
    /\ ~extracted
    /\ pc = "start"
    /\ block # ""
    /\ domain' = extract_domain(block)
    /\ extracted' = TRUE
    /\ UNCHANGED <<fields, block>>
    /\ UNCHANGED run_vars
    /\ UNCHANGED main_vars

NextDomain == ExtractDomain

SpecDomain == InitDomain /\ [][NextDomain]_vars

\* ---- main ----------------------------------------------------------------

\* What the user types at the domain and NetBIOS prompts of get_user_input.
DomainAnswers == {"", "corp.local"}

NetbiosAnswers == {"", "corp"}

\* The runs of the command-line tool: the file is missing, or it exists and
\* is unreadable or holds a report; the output directory takes new files or
\* it does not.
InitMain ==
    /\ file_exists \in BOOLEAN
    /\ readable \in (IF file_exists THEN BOOLEAN ELSE {FALSE})
    /\ content \in (IF readable THEN UNION {FaultReports(n) : n \in 0..MaxHosts}
                    ELSE {""})
    /\ raise_at = {}
    /\ json_only \in BOOLEAN
    /\ output_writable \in BOOLEAN
    /\ main_pc = "main"
    /\ exception = "none"
    /\ exit_code = -1
    /\ prompts_shown = <<>>
    /\ config = <<>>
    /\ output_files = <<>>
    /\ InitRun
    /\ NoExtract

\* sys.exit(code): SystemExit passes both handlers of __main__.
Exit(code) ==
    /\ exit_code' = code
    /\ main_pc' = "exited"
    /\ UNCHANGED exception

\* An exception leaves main for the handlers of __main__.
Raise(kind) ==
    /\ exception' = kind
    /\ main_pc' = "raised"
    /\ UNCHANGED exit_code

\* main, lines 436-438: the file does not exist.
MainFileNotFound ==
    /\ main_pc = "main"
    /\ ~file_exists
    /\ Exit(1)
    /\ UNCHANGED <<file_exists, json_only, output_writable, prompts_shown,
                   config, output_files>>
    /\ UNCHANGED run_vars
    /\ UNCHANGED extract_vars

\* main, lines 441-442: the file exists and the parser is made.
MainCreateParser ==
    /\ main_pc = "main"
    /\ file_exists
    /\ main_pc' = "parse"
    /\ UNCHANGED <<file_exists, json_only, output_writable, exception,
                   exit_code, prompts_shown, config, output_files>>
    /\ UNCHANGED run_vars
    /\ UNCHANGED extract_vars

\* main, line 444: parser.parse() runs until it returns.
MainParse ==
    /\ main_pc = "parse"
    /\ parse_result = "none"
    /\ \/ ParseReadError
       \/ ParseSplit
       \/ ParseHostStep
       \/ ParseReturn

\* main, lines 444-446: parse returned False.
MainParseFailed ==
    /\ main_pc = "parse"
    /\ parse_result = "False"
    /\ Exit(1)
    /\ UNCHANGED <<file_exists, json_only, output_writable, prompts_shown,
                   config, output_files>>
    /\ UNCHANGED run_vars
    /\ UNCHANGED extract_vars

\* MainNoControllers as a benign early exit: sys.exit(0).
MainNoControllersBenign ==
    /\ main_pc = "parse"
    /\ parse_result = "True"
    /\ domain_controllers = <<>>
    /\ Exit(0)
    /\ UNCHANGED <<file_exists, json_only, output_writable, prompts_shown,
                   config, output_files>>
    /\ UNCHANGED run_vars
    /\ UNCHANGED extract_vars

\* main, lines 452-455: no record was made.
MainNoControllers ==
    /\ main_pc = "parse"
    /\ parse_result = "True"
    /\ domain_controllers = <<>>
    /\ Exit(1)
    /\ UNCHANGED <<file_exists, json_only, output_writable, prompts_shown,
                   config, output_files>>
    /\ UNCHANGED run_vars
    /\ UNCHANGED extract_vars

\* dc_data of lines 464-471 and 382-389, in domain_controllers_<timestamp>.json.
dc_file ==
    [file |-> "domain_controllers.json",
     total_hosts |-> total_hosts,
     total_dcs |-> Len(domain_controllers),
     domains |-> domain_names,
     netbios_domains |-> netbios_domains,
     domain_controllers |-> domain_controllers]

\* bloodhound_commands_<timestamp>.sh of lines 397-407.
cmd_file ==
    [file |-> "bloodhound_commands.sh",
     total_dcs |-> Len(commands),
     commands |-> commands]

\* main, lines 461-477: JSON-only mode.  open() under a directory that does
\* not take the file raises an OSError.
MainJsonOnly ==
    /\ main_pc = "parse"
    /\ parse_result = "True"
    /\ domain_controllers # <<>>
    /\ json_only
    /\ IF output_writable
       THEN /\ output_files' = Append(output_files, dc_file)
            /\ Exit(0)
       ELSE /\ Raise("Exception")
            /\ UNCHANGED output_files
    /\ UNCHANGED <<file_exists, json_only, output_writable, prompts_shown,
                   config>>
    /\ UNCHANGED run_vars
    /\ UNCHANGED extract_vars

\* The input() calls of get_user_input, in order: the domain and the NetBIOS
\* domain are asked for unless exactly one was detected.
config_prompts(names, netbios_set) ==
    (IF Cardinality(names) # 1 THEN <<"domain">> ELSE <<>>)
    \o (IF Cardinality(netbios_set) # 1 THEN <<"netbios">> ELSE <<>>)
    \o <<"use_domain_prefix", "username", "password">>

\* config['domain'], lines 338-348; first is list(domain_names)[0].
config_domain(names, answer, first) ==
    IF Cardinality(names) > 1 THEN (IF answer # "" THEN answer ELSE first)
    ELSE IF names # {} THEN first
    ELSE answer

\* config['netbios'], lines 351-361; first is list(netbios_domains)[0].
config_netbios(netbios_set, answer, first) ==
    IF Cardinality(netbios_set) > 1
    THEN Some(IF Upper(answer) # "" THEN Upper(answer) ELSE first)
    ELSE IF netbios_set # {} THEN Some(first)
    ELSE IF Upper(answer) # "" THEN Some(Upper(answer)) ELSE None

\* An input() that does not return: the user interrupts it, or standard
\* input is at its end.
InputFailures == {"KeyboardInterrupt", "Exception"}

\* main, line 480: get_user_input returns the configuration.
MainGetUserInput ==
    /\ main_pc = "parse"
    /\ parse_result = "True"
    /\ domain_controllers # <<>>
    /\ ~json_only
    /\ prompts_shown' =
          prompts_shown \o config_prompts(domain_names, netbios_domains)
    /\ \E domain_answer \in DomainAnswers, netbios_answer \in NetbiosAnswers,
          first_domain \in domain_names \cup {""},
          first_netbios_domain \in netbios_domains \cup {""},
          use_prefix \in BOOLEAN,
          username \in Usernames, password \in Passwords :
          /\ domain_names # {} => first_domain \in domain_names
          /\ netbios_domains # {} => first_netbios_domain \in netbios_domains
          /\ config' =
                Some([domain |-> config_domain(domain_names, domain_answer,
                                               first_domain),
                      netbios |-> config_netbios(netbios_domains, netbios_answer,
                                                 first_netbios_domain),
                      use_domain_prefix |-> use_prefix,
                      username |-> username,
                      password |-> password])
    /\ main_pc' = "configured"
    /\ UNCHANGED <<file_exists, json_only, output_writable, exception,
                   exit_code, output_files>>
    /\ UNCHANGED run_vars
    /\ UNCHANGED extract_vars

\* main, line 480: an input() of get_user_input raises after k prompts.
MainGetUserInputRaises ==
    /\ main_pc = "parse"
    /\ parse_result = "True"
    /\ domain_controllers # <<>>
    /\ ~json_only
    /\ \E k \in 1..Len(config_prompts(domain_names, netbios_domains)) :
          prompts_shown' =
             prompts_shown
             \o SubSeq(config_prompts(domain_names, netbios_domains), 1, k)
    /\ \E kind \in InputFailures : Raise(kind)
    /\ UNCHANGED <<file_exists, json_only, output_writable, config,
                   output_files>>
    /\ UNCHANGED run_vars
    /\ UNCHANGED extract_vars

\* main, lines 483-488: the commands for the configuration.
MainGenerateCommands ==
    /\ main_pc = "configured"
    /\ \E first_of_set \in netbios_domains \cup {""} :
          /\ (netbios_domains # {} => first_of_set \in netbios_domains)
          /\ commands' = generate_all_commands(domain_controllers, netbios_domains,
                                               first_of_set, config[1].username,
                                               config[1].password,
                                               config[1].use_domain_prefix)
    /\ pc' = "generated"
    /\ main_pc' = "generated"
    /\ UNCHANGED <<readable, content, raise_at, hosts, idx, parse_result,
                   domain_controllers, domain_names, netbios_domains,
                   total_hosts, parse_errors>>
    /\ UNCHANGED <<file_exists, json_only, output_writable, exception,
                   exit_code, prompts_shown, config, output_files>>
    /\ UNCHANGED extract_vars

\* main, lines 501-505: the user is asked whether to save; after 'y'
\* save_results writes both files, and main returns.
MainSave ==
    /\ main_pc = "generated"
    /\ prompts_shown' = Append(prompts_shown, "save")
    /\ \E save_choice \in {"y", "n"} :
          IF save_choice = "y" /\ ~output_writable
          THEN /\ Raise("Exception")
               /\ UNCHANGED output_files
          ELSE /\ output_files' =
                     IF save_choice = "y"
                     THEN output_files \o <<dc_file, cmd_file>>
                     ELSE output_files
               /\ Exit(0)
    /\ UNCHANGED <<file_exists, json_only, output_writable, config>>
    /\ UNCHANGED run_vars
    /\ UNCHANGED extract_vars

\* main, line 501: the input() of the save question raises.
MainSaveRaises ==
    /\ main_pc = "generated"
    /\ prompts_shown' = Append(prompts_shown, "save")
    /\ \E kind \in InputFailures : Raise(kind)
    /\ UNCHANGED <<file_exists, json_only, output_writable, config,
                   output_files>>
    /\ UNCHANGED run_vars
    /\ UNCHANGED extract_vars

\* The user interrupts main between two of its steps.
MainInterrupt ==
    /\ main_pc \in {"main", "parse", "configured", "generated"}
    /\ Raise("KeyboardInterrupt")
    /\ UNCHANGED <<file_exists, json_only, output_writable, prompts_shown,
                   config, output_files>>
    /\ UNCHANGED run_vars
    /\ UNCHANGED extract_vars

\* __main__, lines 507-518: the handlers of KeyboardInterrupt and Exception.
MainHandler ==
    /\ main_pc = "raised"
    /\ exit_code' = (IF exception = "KeyboardInterrupt" THEN 0 ELSE 1)
    /\ main_pc' = "exited"
    /\ UNCHANGED <<file_exists, json_only, output_writable, exception,
                   prompts_shown, config, output_files>>
    /\ UNCHANGED run_vars
    /\ UNCHANGED extract_vars

NextMain ==
    \/ MainFileNotFound
    \/ MainCreateParser
    \/ MainParse
    \/ MainParseFailed
    \/ MainNoControllers
    \/ MainJsonOnly
    \/ MainGetUserInput
    \/ MainGetUserInputRaises
    \/ MainGenerateCommands
    \/ MainSave
    \/ MainSaveRaises
    \/ MainInterrupt
    \/ MainHandler

SpecMain == InitMain /\ [][NextMain]_vars

\* ---- properties ----------------------------------------------------------

\* Evidence of port 88 and of port 389 or 636 in the text of a block.
Evidence(b) ==
    /\ Contains(Lower(b), "88/tcp")
    /\ Contains(Lower(b), "389/tcp") \/ Contains(Lower(b), "636/tcp")

\* The header line of the block has no parsable IPv4 address.
NoAddress(b) == ip_match(Split(b, "\n")[1]) = None

\* A step that is one iteration of the loop of parse.
HostStep == pc = "loop" /\ pc' = "loop" /\ idx' = idx + 1

\* The iteration appends one record and keeps the records before it.
Promoted ==
    /\ Len(domain_controllers') = Len(domain_controllers) + 1
    /\ SubSeq(domain_controllers', 1, Len(domain_controllers)) = domain_controllers

\* The record the iteration appended.
NewRecord == domain_controllers'[Len(domain_controllers')]

\* C1, as stated: a host block is promoted to a Domain Controller Record if
\* and only if its text holds 88/tcp together with 389/tcp or 636/tcp, in any
\* letter case.
C1_PromotedIffEvidence ==
    [][HostStep =>
          /\ Promoted \/ domain_controllers' = domain_controllers
          /\ Promoted <=> Evidence(host_block)]_vars

\* C1, amended: a host block is promoted to a Domain Controller Record if and
\* only if its header line holds a parsable IPv4 address and its text holds
\* 88/tcp together with 389/tcp or 636/tcp, in any letter case; the record
\* carries that address.
C1_PromotedIffAddressAndEvidence ==
    [][HostStep =>
          /\ Promoted \/ domain_controllers' = domain_controllers
          /\ Promoted <=> (~NoAddress(host_block) /\ Evidence(host_block))
          /\ Promoted => Some(NewRecord.ip) = ip_match(Split(host_block, "\n")[1])]_vars

\* A finished run over two blocks with the port evidence, one with an
\* address in its header and promoted, one without and not promoted.
C1_Witness ==
    /\ pc = "parsed"
    /\ total_hosts = 2
    /\ Len(domain_controllers) = 1
    /\ \A j \in 1..2 : Evidence(hosts[j + 1])
    /\ \E j \in 1..2 : NoAddress(hosts[j + 1])

\* C4: a host block whose header line has no parsable IPv4 address yields no
\* Domain Controller Record and no parse error, and leaves domain_names and
\* netbios_domains as they were.
C4_NoAddressDropped ==
    [][HostStep /\ NoAddress(host_block) =>
          UNCHANGED <<domain_controllers, parse_errors, domain_names,
                      netbios_domains>>]_vars

\* A finished run over one block without an address that has the port
\* evidence, a domain and a NetBIOS name: nothing was recorded.
C4_Witness ==
    /\ pc = "parsed"
    /\ total_hosts = 1
    /\ NoAddress(hosts[2])
    /\ Evidence(hosts[2])
    /\ extract_domain(hosts[2]) # None
    /\ extract_netbios(hosts[2]) # None
    /\ domain_controllers = <<>>
    /\ parse_errors = <<>>
    /\ domain_names = {}
    /\ netbios_domains = {}

\* The text of the header line before its first "(", stripped.
HeaderName(b) == Strip(Split(Split(b, "\n")[1], "(")[1])

\* C6, as stated: every Domain Controller Record has a non-empty hostname,
\* the stripped text of the header line before the first "(" when that text
\* is non-empty, and the ip of the record otherwise.
C6_HostnameNonEmpty ==
    [][HostStep /\ Promoted =>
          /\ NewRecord.hostname # ""
          /\ NewRecord.hostname = IF HeaderName(host_block) # ""
                                  THEN HeaderName(host_block)
                                  ELSE NewRecord.ip]_vars

\* C8: total_hosts and the number of host blocks processed equal the number
\* of markers in the report; the records are those of the segments after a
\* marker, never of the segment before the first; a report without a marker
\* gives no host block, no record and no error, and parse returns True.
C8_BlocksAreMarkers ==
    pc \in {"loop", "parsed", "generated"} =>
        /\ total_hosts = Cardinality(Occurrences(content, Marker))
        /\ Len(hosts) = total_hosts + 1
        /\ idx - 1 <= total_hosts
        /\ pc # "loop" => idx - 1 = total_hosts /\ parse_result = "True"
        /\ Len(domain_controllers) =
              Cardinality({j \in 2..idx : ~NoAddress(hosts[j]) /\ Evidence(hosts[j])})
        /\ total_hosts = 0 => domain_controllers = <<>> /\ parse_errors = <<>>

\* A finished run over a report without a marker whose text would qualify
\* as a host block: no host, no record, no error.
C8_Witness ==
    /\ pc = "parsed"
    /\ parse_result = "True"
    /\ total_hosts = 0
    /\ ~NoAddress(content)
    /\ Evidence(content)
    /\ domain_controllers = <<>>
    /\ parse_errors = <<>>

\* The ports of the table, in the order of the table.
TableOrder == <<88, 389, 636, 445, 3268, 3269, 53, 135>>

\* The place of a port in the table.
TablePlace(p) == CHOOSE k \in 1..Len(TableOrder) : TableOrder[k] = p

\* The service the table names for a port.
TableService(p) ==
    CASE p = 88 -> "Kerberos"
      [] p = 389 -> "LDAP"
      [] p = 636 -> "LDAPS"
      [] p = 445 -> "SMB"
      [] p = 3268 -> "Global Catalog"
      [] p = 3269 -> "Global Catalog SSL"
      [] p = 53 -> "DNS"
      [] p = 135 -> "RPC"

\* The ports and services of rec are those of the block b.
PortsOfBlock(rec, b) ==
    /\ {rec.ports[i] : i \in 1..Len(rec.ports)} =
          {TableOrder[k] : k \in {k \in 1..Len(TableOrder) :
              Contains(Lower(b), IntToStr(TableOrder[k]) \o "/tcp")}}
    /\ \A i, j \in 1..Len(rec.ports) :
          i < j => TablePlace(rec.ports[i]) < TablePlace(rec.ports[j])
    /\ Len(rec.services) = Len(rec.ports)
    /\ \A i \in 1..Len(rec.ports) : rec.services[i] = TableService(rec.ports[i])

\* C9: the ports of a Domain Controller Record are exactly the ports of the
\* table whose <port>/tcp occurs in the block, each once, in the order of the
\* table, and services[i] is the table's service for ports[i].
C9_PortsInTableOrder ==
    [][HostStep /\ Promoted => PortsOfBlock(NewRecord, host_block)]_vars

\* A finished run with a record of the block that lists 135, 53, 88 and
\* 3389 in this order: its ports are 88, 389, 53, 135.
C9_Witness ==
    /\ pc = "parsed"
    /\ \E i \in 1..Len(domain_controllers) :
          /\ domain_controllers[i].ports = <<88, 389, 53, 135>>
          /\ domain_controllers[i].services = <<"Kerberos", "LDAP", "DNS", "RPC">>

\* The positions of the records (of the commands) of the group of domain d.
RecordsOf(d) ==
    {i \in 1..Len(domain_controllers) :
        (IF domain_controllers[i].domain = None \/ domain_controllers[i].domain = <<"">>
         THEN "UNKNOWN" ELSE domain_controllers[i].domain[1]) = d}

CommandsOf(d) == {i \in 1..Len(commands) : commands[i].domain = d}

\* The records of the group of d that have a NetBIOS name.
NamedOf(d) == {i \in RecordsOf(d) : domain_controllers[i].netbios # None}

\* The k-th least element of a set of positions.
Nth(S, k) == CHOOSE x \in S : Cardinality({y \in S : y <= x}) = k

\* C10: generate_all_commands renders one command per Domain Controller
\* Record, grouped by domain, the records without a domain under UNKNOWN; the
\* commands of a group carry one NetBIOS value: that of the first record of
\* the group that has one, else an element of netbios_domains, else none.
C10_OneCommandPerRecord ==
    pc = "generated" =>
        /\ Len(commands) = Len(domain_controllers)
        /\ \A i \in 1..Len(commands) :
              \* the commands of a group are its records, in record order
              /\ CommandsOf(commands[i].domain) # {}
              /\ Cardinality(CommandsOf(commands[i].domain)) =
                    Cardinality(RecordsOf(commands[i].domain))
              /\ \E k \in 1..Cardinality(CommandsOf(commands[i].domain)) :
                    /\ Nth(CommandsOf(commands[i].domain), k) = i
                    /\ commands[i].dc =
                          domain_controllers[Nth(RecordsOf(commands[i].domain), k)]
              \* the groups follow one another
              /\ \A j \in 1..Len(commands) :
                    i < j /\ commands[i].domain = commands[j].domain =>
                        \A m \in i..j : commands[m].domain = commands[i].domain
              \* the NetBIOS value of the group
              /\ commands[i].netbios =
                    IF NamedOf(commands[i].domain) # {}
                    THEN domain_controllers[Min(NamedOf(commands[i].domain))].netbios
                    ELSE IF netbios_domains = {} THEN None
                    ELSE commands[i].netbios
              /\ NamedOf(commands[i].domain) = {} /\ netbios_domains # {} =>
                    /\ commands[i].netbios # None
                    /\ commands[i].netbios[1] \in netbios_domains
              /\ \A j \in 1..Len(commands) :
                    commands[i].domain = commands[j].domain =>
                        commands[i].netbios = commands[j].netbios
              \* the command names the domain and the controller
              /\ Contains(commands[i].command, "-d " \o commands[i].domain \o " ")
              /\ Contains(commands[i].command, "-dc " \o commands[i].dc.hostname \o " ")

\* Commands for two records of one domain, the first without a NetBIOS name
\* and the second with one: both commands carry the name of the second.
C10_Witness ==
    /\ pc = "generated"
    /\ Len(commands) = 2
    /\ commands[1].domain = commands[2].domain
    /\ commands[1].dc.netbios = None
    /\ commands[2].dc.netbios # None
    /\ commands[1].netbios = commands[2].dc.netbios

\* The host indexes below i at which _parse_host raised (did not raise and
\* returned a record).
RaisedBelow(i) == {j \in 1..(i - 1) : j \in raise_at}

ReturnedBelow(i) ==
    {j \in 1..(i - 1) :
        j \notin raise_at /\ ~NoAddress(hosts[j + 1]) /\ Evidence(hosts[j + 1])}

\* msg is tagged with the host index j.
TaggedWith(msg, j) ==
    /\ StartsAt(msg, 1, "Host " \o IntToStr(j) \o ":")
    /\ \A k \in 1..MaxHosts + 1 :
          k # j => ~StartsAt(msg, 1, "Host " \o IntToStr(k) \o ":")

\* C5: when processing the i-th host block raises, parse appends one message
\* tagged with i to parse_errors and no record for that block, processes the
\* later blocks as it would have without the failure, and returns True.
C5_ErrorsDoNotAbort ==
    /\ pc \in {"start", "loop", "parsed"}
    /\ parse_result # "False"
    /\ pc \in {"loop", "parsed"} =>
        /\ Len(parse_errors) = Cardinality(RaisedBelow(idx))
        /\ \A k \in 1..Len(parse_errors) :
              TaggedWith(parse_errors[k], Nth(RaisedBelow(idx), k))
        /\ Len(domain_controllers) = Cardinality(ReturnedBelow(idx))
        /\ \A k \in 1..Len(domain_controllers) :
              Some(domain_controllers[k]) = parse_host(hosts[Nth(ReturnedBelow(idx), k) + 1])
        /\ pc = "parsed" => idx = total_hosts + 1 /\ parse_result = "True"

\* A finished run over two qualifying blocks, the first of which raised: one
\* error tagged Host 1, and the record of the second block.
C5_Witness ==
    /\ pc = "parsed"
    /\ parse_result = "True"
    /\ total_hosts = 2
    /\ raise_at = {1}
    /\ Evidence(hosts[2]) /\ ~NoAddress(hosts[2])
    /\ Len(parse_errors) = 1
    /\ Len(domain_controllers) = 1
    /\ Some(domain_controllers[1]) = parse_host(hosts[3])

\* The fields of a kind, and the first of them in the block.
FieldsOf(kind) == {i \in 1..Len(fields) : fields[i].kind = kind}

FirstOf(kind) == fields[Min(FieldsOf(kind))]

\* Strategy 3 matches: the dns_computer_name the search finds, the first of
\* the block, is a fully qualified name.
QualifiedName ==
    FieldsOf("dns") # {} /\ Contains(FirstOf("dns").value[1], ".")

\* C2, as stated: without a Domain: label, a defaultNamingContext made of n
\* DC= components gives the n components joined with dots.
C2_AllComponentsJoined ==
    extracted /\ FieldsOf("domain") = {} /\ FieldsOf("nc") # {} =>
        domain = Some(Join(".", FirstOf("nc").value))

\* C3: the strategies are tried in the order Domain:, defaultNamingContext,
\* dns_computer_name, forest, wherever the fields stand in the block; the
\* first that matches gives the domain (a Domain: field gives its value, a
\* later strategy never replaces it), and the domain is unset when none
\* matches.
C3_FirstStrategyWins ==
    extracted =>
        IF FieldsOf("domain") # {}
        THEN domain = Some(FirstOf("domain").value[1])
        ELSE IF FieldsOf("nc") # {}
        THEN domain # None /\ domain = domain_from_naming_context(block)
        ELSE IF QualifiedName
        THEN domain # None /\ domain = domain_from_dns_hostname(block)
        ELSE IF FieldsOf("forest") # {}
        THEN domain # None /\ domain = forest_match(block)
        ELSE domain = None

\* A block whose naming context stands before its Domain: field: the domain
\* is the value of the Domain: field.
C3_Witness ==
    /\ extracted
    /\ Len(fields) = 2
    /\ fields[1].kind = "nc"
    /\ fields[2].kind = "domain"
    /\ domain = Some(fields[2].value[1])

\* C7, as stated: when strategies 1 to 3 give nothing, the domain is set only
\* from a forest: label followed by a dotted name, and is that name.
C7_ForestDottedName ==
    extracted /\ FieldsOf("domain") = {} /\ FieldsOf("nc") = {} /\ ~QualifiedName =>
        \/ domain = None
        \/ \E i \in FieldsOf("forest") :
              /\ Lower(fields[i].label) = "forest: "
              /\ Contains(fields[i].value[1], ".")
              /\ domain = Some(fields[i].value[1])

\* The user interrupted the run: KeyboardInterrupt reached __main__.
Interrupted == exception = "KeyboardInterrupt"

\* The report file does not exist.
FileMissing == ~file_exists

\* The report file exists and cannot be read.
FileUnreadable == file_exists /\ ~readable

\* The report was parsed and no host block qualified.
NoControllerFound == parse_result = "True" /\ domain_controllers = <<>>

\* main ran to its last line, or wrote the file of JSON-only mode.
Completed ==
    /\ exception = "none"
    /\ parse_result = "True"
    /\ domain_controllers # <<>>
    /\ IF json_only THEN output_files = <<dc_file>> ELSE pc = "generated"

\* C11: a run that is not interrupted exits with 1 when the report file does
\* not exist, when it cannot be read and when no controller was found; a run
\* exits with 0 when main runs to its end, when JSON-only mode has written
\* its file and when the user interrupts it (the interruption decides the
\* status, whatever the file is); and at no moment of a run on a missing
\* file, an unreadable file or a report without controllers is an output
\* file written or a prompt shown.
C11_ExitCodes ==
    /\ FileMissing \/ FileUnreadable \/ NoControllerFound =>
          /\ output_files = <<>>
          /\ prompts_shown = <<>>
          /\ main_pc = "exited" /\ ~Interrupted => exit_code = 1
    /\ main_pc = "exited" /\ (Interrupted \/ Completed) => exit_code = 0
    /\ main_pc # "exited" <=> exit_code = -1

\* A run on a report with host blocks and no controller among them has
\* exited with 1, nothing written and nothing asked.
C11_Witness ==
    /\ main_pc = "exited"
    /\ NoControllerFound
    /\ total_hosts > 0
    /\ ~Interrupted
    /\ exit_code = 1
    /\ output_files = <<>>
    /\ prompts_shown = <<>>

====
